---- MODULE Spec2Model ----
(***************************************************************************)
(* Model of the unsafe memory corruption demo (src/src/main.rs).           *)
(*                                                                         *)
(* The Frame record is modelled as its byte image (#[repr(C)], 4-byte      *)
(* aligned u32/i32 fields, little-endian, as on the x86_64 and aarch64     *)
(* targets the demo is written for).  The bytes between the 5-byte buffer  *)
(* and the aligned len field are padding: Frame::new() does not            *)
(* initialise them, so their value at the start of a trial is arbitrary.   *)
(*                                                                         *)
(* main() is sequential; the model follows its statements with a program   *)
(* counter pc.  The specifications share the definitions:                  *)
(*   Spec       main() as written, end lengths [5, 6, 8, 10, 12];          *)
(*   FairSpec   Spec with weak fairness of its steps (termination);        *)
(*   SpecTrial  the body of main's loop for one arbitrary end length;      *)
(*   SpecOps    a Frame and a MemoryView driven by arbitrary raw writes,   *)
(*              with capture / print_diff / safe_sum_prefix applied;       *)
(*   SpecAll    the behaviours of Spec, SpecTrial and SpecOps together.    *)
(***************************************************************************)
EXTENDS Integers, Sequences, FiniteSets, TLC

VARIABLES
    pc,           \* position in main(): "loop", "write", "capture", "diff", "saveprev", "endtrial", "done"
    ends,         \* the array main's outer for loop iterates over
    t,            \* 1-based index of the current element of ends
    end,          \* the loop variable `end` of the current trial
    i,            \* the inner loop variable `i`
    mem,          \* the bytes of `frame`, 0..FRAME_SIZE-1
    snapshot,     \* view.snapshot
    corrupted,    \* view.corrupted
    prev,         \* the local `prev`
    row,          \* the last hex-dump line printed: label and one cell per byte
    safe_result,  \* the result of catch_unwind(safe_sum_prefix): <<"Ok", sum>> or <<"Err">>
    after,        \* the values printed on the "After:" line: <<len, num, guard>>
    frame0,       \* history: the byte image of the frame right after Frame::new()
    events,       \* history: the writes and diff lines of the current trial, in order
                  \* (SpecOps: what the current round did in place of the write)
    outcomes      \* history: one record per finished trial

vars == <<pc, ends, t, end, i, mem, snapshot, corrupted, prev, row,
          safe_result, after, frame0, events, outcomes>>

(***************************************************************************)
(* Bounds of the model.                                                    *)
(***************************************************************************)
\* uninitialised padding bytes take a value in 0..MaxPad
MaxPad == 7
\* SpecTrial runs one trial for every end length in 1..MaxEnd
MaxEnd == 17
\* SpecOps: raw writes store a value in 0..MaxOpsVal
MaxOpsVal == 1
\* SpecOps: number of write/capture/diff rounds
MaxIter == 2

(***************************************************************************)
(* Layout of Frame.                                                        *)
(***************************************************************************)
BUFFER_SIZE == 5
LEN_SZ == 4
NUM_SZ == 4
GUARD_SZ == 4
\* alignment of u32 and i32
ALIGN_U32 == 4

\* #[repr(C)]: each field at the next offset that is a multiple of its alignment
AlignUp(off, a) == ((off + a - 1) \div a) * a

BUF_OFF == 0
\* mutant: the layout of #[repr(C, packed)], len right after the buffer
LEN_OFF_packed == BUF_OFF + BUFFER_SIZE

LEN_OFF == AlignUp(BUF_OFF + BUFFER_SIZE, ALIGN_U32)
NUM_OFF == AlignUp(LEN_OFF + LEN_SZ, ALIGN_U32)
GUARD_OFF == AlignUp(NUM_OFF + NUM_SZ, ALIGN_U32)
FRAME_SIZE == AlignUp(GUARD_OFF + GUARD_SZ, ALIGN_U32)

Positions == 0..(FRAME_SIZE - 1)

WATCHED == << <<LEN_OFF, LEN_OFF + LEN_SZ>>,
              <<NUM_OFF, NUM_OFF + NUM_SZ>>,
              <<GUARD_OFF, GUARD_OFF + GUARD_SZ>> >>

\* mutant: only the starts of the watched fields
SEPS_field_starts == <<LEN_OFF, NUM_OFF, GUARD_OFF>>

SEPS == <<BUF_OFF + BUFFER_SIZE, LEN_OFF, NUM_OFF, GUARD_OFF>>

\* mutant: one more trial, 14 bytes
ENDS_with_14 == <<5, 6, 8, 10, 12, 14>>

ENDS == <<5, 6, 8, 10, 12>>

InRange(j, start, stop) == j >= start /\ j < stop

\* the bytes of the frame that belong to no field
PADDING == {j \in Positions :
              /\ ~InRange(j, BUF_OFF, BUF_OFF + BUFFER_SIZE)
              /\ ~InRange(j, LEN_OFF, LEN_OFF + LEN_SZ)
              /\ ~InRange(j, NUM_OFF, NUM_OFF + NUM_SZ)
              /\ ~InRange(j, GUARD_OFF, GUARD_OFF + GUARD_SZ)}

(***************************************************************************)
(* Frame.                                                                  *)
(***************************************************************************)
NUM_INIT == 40000
\* 0xDEAD_BEEF, least significant byte first
GUARD_INIT == <<239, 190, 173, 222>>

\* byte k of the little-endian representation of v
LeByte(v, k) == (v \div (256 ^ k)) % 256

\* mutant: len initialised to 0 instead of BUFFER_SIZE
FrameNew_len_zero(pad) ==
    [j \in Positions |->
        IF InRange(j, BUF_OFF, BUF_OFF + BUFFER_SIZE) THEN 0
        ELSE IF InRange(j, LEN_OFF, LEN_OFF + LEN_SZ) THEN 0
        ELSE IF InRange(j, NUM_OFF, NUM_OFF + NUM_SZ) THEN LeByte(NUM_INIT, j - NUM_OFF)
        ELSE IF InRange(j, GUARD_OFF, GUARD_OFF + GUARD_SZ) THEN GUARD_INIT[j - GUARD_OFF + 1]
        ELSE pad[j]]

\* Frame::new(); pad gives the (uninitialised) padding bytes
FrameNew(pad) ==
    [j \in Positions |->
        IF InRange(j, BUF_OFF, BUF_OFF + BUFFER_SIZE) THEN 0
        ELSE IF InRange(j, LEN_OFF, LEN_OFF + LEN_SZ) THEN LeByte(BUFFER_SIZE, j - LEN_OFF)
        ELSE IF InRange(j, NUM_OFF, NUM_OFF + NUM_SZ) THEN LeByte(NUM_INIT, j - NUM_OFF)
        ELSE IF InRange(j, GUARD_OFF, GUARD_OFF + GUARD_SZ) THEN GUARD_INIT[j - GUARD_OFF + 1]
        ELSE pad[j]]

\* mutant: the bytes of len read most significant first
read_len_volatile_be(m) ==
    m[LEN_OFF + 3] + 256 * m[LEN_OFF + 2] + 65536 * m[LEN_OFF + 1] + 16777216 * m[LEN_OFF]

read_len_volatile(m) ==
    m[LEN_OFF] + 256 * m[LEN_OFF + 1] + 65536 * m[LEN_OFF + 2] + 16777216 * m[LEN_OFF + 3]

\* i32: two's complement
read_num_volatile(m) ==
    LET low == m[NUM_OFF] + 256 * m[NUM_OFF + 1] + 65536 * m[NUM_OFF + 2]
        top == m[NUM_OFF + 3]
    IN  IF top < 128 THEN top * 16777216 + low ELSE (top - 256) * 16777216 + low

\* printed as 0x{:08X}: the four bytes, most significant first
read_guard_volatile(m) ==
    <<m[GUARD_OFF + 3], m[GUARD_OFF + 2], m[GUARD_OFF + 1], m[GUARD_OFF]>>

(***************************************************************************)
(* MemoryView.                                                             *)
(***************************************************************************)
\* MemoryView::new: corrupted = [false; N]
NoCorruption == [j \in Positions |-> FALSE]

\* MemoryView::new: snapshot = [0u8; N]
ZeroSnapshot == [j \in Positions |-> 0]

\* capture: copy N bytes from memory into the snapshot
Capture(m) == [j \in Positions |-> m[j]]

is_separator(j) == \E k \in 1..Len(SEPS) : SEPS[k] = j

\* mutant: i > start in place of i >= start
is_watched_after_start(j) == \E k \in 1..Len(WATCHED) : j > WATCHED[k][1] /\ j < WATCHED[k][2]

is_watched(j) == \E k \in 1..Len(WATCHED) : j >= WATCHED[k][1] /\ j < WATCHED[k][2]

\* mutant: the watched test made before the changed test
print_byte_watched_first(flags, j, byte, changed_this_iter) ==
    [sep  |-> is_separator(j),
     fmt  |-> IF is_watched(j) /\ ~flags[j] THEN "green"
              ELSE IF changed_this_iter THEN "red"
              ELSE "plain",
     byte |-> byte]

\* print_byte: the separator and the formatter chosen for byte j
print_byte(flags, j, byte, changed_this_iter) ==
    [sep  |-> is_separator(j),
     fmt  |-> IF changed_this_iter THEN "red"
              ELSE IF is_watched(j) /\ ~flags[j] THEN "green"
              ELSE "plain",
     byte |-> byte]

\* mutant: every byte through color::plain
print_row_all_plain(flags, snap, label) ==
    [label |-> label,
     cells |-> [j \in Positions |-> [sep |-> is_separator(j), fmt |-> "plain", byte |-> snap[j]]]]

\* print_row: every byte printed with changed_this_iter = false
print_row(flags, snap, label) ==
    [label |-> label,
     cells |-> [j \in Positions |-> print_byte(flags, j, snap[j], FALSE)]]

\* mutant: p == c passed as changed_this_iter
print_diff_line_inverted(flags, snap, p, label) ==
    [label |-> label,
     cells |-> [j \in Positions |-> print_byte(flags, j, snap[j], p[j] = snap[j])]]

\* print_diff, the line printed
print_diff_line(flags, snap, p, label) ==
    [label |-> label,
     cells |-> [j \in Positions |-> print_byte(flags, j, snap[j], p[j] # snap[j])]]

\* mutant: corrupted[i] = (prev[i] != snapshot[i]), which clears flags
print_diff_mark_assign(flags, snap, p) ==
    [j \in Positions |-> p[j] # snap[j]]

\* mutant: only watched bytes are marked
print_diff_mark_watched_only(flags, snap, p) ==
    [j \in Positions |-> IF p[j] # snap[j] /\ is_watched(j) THEN TRUE ELSE flags[j]]

\* mutant: the marking loop left out
print_diff_mark_none(flags, snap, p) == flags

\* print_diff, the flags after the marking loop
print_diff_mark(flags, snap, p) ==
    [j \in Positions |-> IF p[j] # snap[j] THEN TRUE ELSE flags[j]]

NoRow == [label |-> <<>>, cells |-> [j \in Positions |-> [sep |-> FALSE, fmt |-> "", byte |-> 0]]]

(***************************************************************************)
(* safe_sum_prefix under catch_unwind.                                     *)
(***************************************************************************)
RECURSIVE SumBytes(_, _)
SumBytes(m, n) == IF n = 0 THEN 0 ELSE SumBytes(m, n - 1) + m[BUF_OFF + n - 1]

\* mutant: the panic already at len == BUFFER_SIZE
safe_sum_prefix_ge(m) ==
    LET len == read_len_volatile(m)
    IN  IF len >= BUFFER_SIZE THEN <<"Err">> ELSE <<"Ok", SumBytes(m, len)>>

\* mutant: buffer.iter().take(len), which never panics
safe_sum_prefix_take(m) ==
    LET len == read_len_volatile(m)
    IN  <<"Ok", SumBytes(m, IF len > BUFFER_SIZE THEN BUFFER_SIZE ELSE len)>>

\* frame.buffer[..len] panics when len > BUFFER_SIZE
safe_sum_prefix(m) ==
    LET len == read_len_volatile(m)
    IN  IF len > BUFFER_SIZE THEN <<"Err">> ELSE <<"Ok", SumBytes(m, len)>>

(***************************************************************************)
(* The raw write *buf_ptr.add(i) = i as u8.                                *)
(***************************************************************************)
\* mutant: the write one byte further
RawWrite_off_by_one(m, off, val) == [m EXCEPT ![BUF_OFF + off + 1] = val % 256]

RawWrite(m, off, val) == [m EXCEPT ![BUF_OFF + off] = val % 256]

(***************************************************************************)
(* main().                                                                 *)
(***************************************************************************)
PadChoices == [PADDING -> 0..MaxPad]

\* the state before the first trial: no frame and no view exist yet
NoTrial ==
    /\ t = 1 /\ end = 0 /\ i = 0
    /\ mem = ZeroSnapshot /\ frame0 = ZeroSnapshot
    /\ snapshot = ZeroSnapshot /\ prev = ZeroSnapshot
    /\ corrupted = NoCorruption
    /\ row = NoRow
    /\ safe_result = <<>> /\ after = <<>>
    /\ events = <<>> /\ outcomes = <<>>

Init ==
    /\ pc = "loop"
    /\ ends = ENDS
    /\ NoTrial

\* one trial, any end length
InitTrial ==
    /\ pc = "loop"
    /\ \E e \in 1..MaxEnd : ends = <<e>>
    /\ NoTrial

\* for end in [...] { frame = Frame::new(); view = MemoryView::new(..);
\* view.capture(base_ptr); prev = view.snapshot; view.print_row("init");
StartTrial ==
    /\ pc = "loop"
    /\ t <= Len(ends)
    /\ end' = ends[t]
    /\ \E pad \in PadChoices :
         LET f == FrameNew(pad)
             snap == Capture(f)
         IN  /\ mem' = f
             /\ frame0' = f
             /\ snapshot' = snap
             /\ prev' = snap
             /\ corrupted' = NoCorruption
             /\ row' = print_row(NoCorruption, snap, <<"init">>)
    /\ i' = 0
    /\ safe_result' = <<>>
    /\ after' = <<>>
    /\ events' = <<>>
    /\ pc' = "write"
    /\ UNCHANGED <<ends, t, outcomes>>

\* mutant: the byte written is i + 1
Write_plus_one ==
    /\ pc = "write"
    /\ i < end
    /\ mem' = RawWrite(mem, i, i + 1)
    /\ events' = Append(events, <<"write", i>>)
    /\ pc' = "capture"
    /\ UNCHANGED <<ends, t, end, i, snapshot, corrupted, prev, row,
                   safe_result, after, frame0, outcomes>>

\* mutant: the inner loop over 0..=end
Write_inclusive ==
    /\ pc = "write"
    /\ i <= end
    /\ mem' = RawWrite(mem, i, i)
    /\ events' = Append(events, <<"write", i>>)
    /\ pc' = "capture"
    /\ UNCHANGED <<ends, t, end, i, snapshot, corrupted, prev, row,
                   safe_result, after, frame0, outcomes>>

\* for i in 0..end { *buf_ptr.add(i) = i as u8;
Write ==
    /\ pc = "write"
    /\ i < end
    /\ mem' = RawWrite(mem, i, i)
    /\ events' = Append(events, <<"write", i>>)
    /\ pc' = "capture"
    /\ UNCHANGED <<ends, t, end, i, snapshot, corrupted, prev, row,
                   safe_result, after, frame0, outcomes>>

\* view.capture(base_ptr);
CaptureStep ==
    /\ pc = "capture"
    /\ snapshot' = Capture(mem)
    /\ pc' = "diff"
    /\ UNCHANGED <<ends, t, end, i, mem, corrupted, prev, row,
                   safe_result, after, frame0, events, outcomes>>

\* view.print_diff(&prev, "i={i}");
PrintDiff ==
    /\ pc = "diff"
    /\ row' = print_diff_line(corrupted, snapshot, prev, <<"i=", i>>)
    /\ corrupted' = print_diff_mark(corrupted, snapshot, prev)
    /\ events' = Append(events, <<"diff", i>>)
    /\ pc' = "saveprev"
    /\ UNCHANGED <<ends, t, end, i, mem, snapshot, prev,
                   safe_result, after, frame0, outcomes>>

\* mutant: prev is never updated
SavePrev_stale ==
    /\ pc = "saveprev"
    /\ i' = i + 1
    /\ pc' = "write"
    /\ UNCHANGED <<ends, t, end, mem, snapshot, corrupted, prev, row,
                   safe_result, after, frame0, events, outcomes>>

\* prev = view.snapshot; }
SavePrev ==
    /\ pc = "saveprev"
    /\ prev' = snapshot
    /\ i' = i + 1
    /\ pc' = "write"
    /\ UNCHANGED <<ends, t, end, mem, snapshot, corrupted, row,
                   safe_result, after, frame0, events, outcomes>>

\* mutant: safe_sum_prefix called without catch_unwind, the panic ends the process
Consume_no_catch ==
    /\ pc = "write"
    /\ i >= end
    /\ after' = <<read_len_volatile(mem), read_num_volatile(mem), read_guard_volatile(mem)>>
    /\ safe_result' = safe_sum_prefix(mem)
    /\ pc' = IF safe_sum_prefix(mem) = <<"Err">> THEN "panicked" ELSE "endtrial"
    /\ UNCHANGED <<ends, t, end, i, mem, snapshot, corrupted, prev, row,
                   frame0, events, outcomes>>

\* after the inner loop: the "After:" line, then catch_unwind(safe_sum_prefix)
\* and the line reporting its result
Consume ==
    /\ pc = "write"
    /\ i >= end
    /\ after' = <<read_len_volatile(mem), read_num_volatile(mem), read_guard_volatile(mem)>>
    /\ safe_result' = safe_sum_prefix(mem)
    /\ pc' = "endtrial"
    /\ UNCHANGED <<ends, t, end, i, mem, snapshot, corrupted, prev, row,
                   frame0, events, outcomes>>

\* println!() and the end of the outer loop's body: an empty line is printed,
\* frame, view and prev go out of scope
EndTrial ==
    /\ pc = "endtrial"
    /\ outcomes' = Append(outcomes, [end |-> end, events |-> events, result |-> safe_result])
    /\ t' = t + 1
    /\ mem' = ZeroSnapshot /\ frame0' = ZeroSnapshot
    /\ snapshot' = ZeroSnapshot /\ prev' = ZeroSnapshot
    /\ corrupted' = NoCorruption
    /\ row' = NoRow
    /\ pc' = "loop"
    /\ UNCHANGED <<ends, end, i, safe_result, after, events>>

\* the outer loop is exhausted: the summary is printed and main returns
Summary ==
    /\ pc = "loop"
    /\ t > Len(ends)
    /\ pc' = "done"
    /\ UNCHANGED <<ends, t, end, i, mem, snapshot, corrupted, prev, row,
                   safe_result, after, frame0, events, outcomes>>

Next ==
    \/ StartTrial
    \/ Write
    \/ CaptureStep
    \/ PrintDiff
    \/ SavePrev
    \/ Consume
    \/ EndTrial
    \/ Summary

Spec == Init /\ [][Next]_vars

SpecTrial == InitTrial /\ [][Next]_vars

\* main is sequential and never blocks: a step that is enabled is taken
FairSpec == Init /\ [][Next]_vars /\ WF_vars(Next)

(***************************************************************************)
(* A Frame and a MemoryView under arbitrary raw writes: the trial's loop   *)
(* with the offset and the value of each write chosen freely (or no write  *)
(* at all), then safe_sum_prefix.                                          *)
(***************************************************************************)
InitOps ==
    /\ pc = "h_write"
    /\ ends = <<>>
    /\ t = 1 /\ end = 0 /\ i = 0
    /\ mem = FrameNew([j \in PADDING |-> 0])
    /\ frame0 = mem
    /\ snapshot = Capture(mem)
    /\ prev = snapshot
    /\ corrupted = NoCorruption
    /\ row = NoRow
    /\ safe_result = <<>> /\ after = <<>>
    /\ events = <<>> /\ outcomes = <<>>

HWrite ==
    /\ pc = "h_write"
    /\ i < MaxIter
    /\ \E off \in 0..(FRAME_SIZE - BUF_OFF - 1), val \in 0..MaxOpsVal :
         /\ mem' = RawWrite(mem, off, val)
         /\ events' = << <<"write", off>> >>
    /\ pc' = "h_capture"
    /\ UNCHANGED <<ends, t, end, i, snapshot, corrupted, prev, row,
                   safe_result, after, frame0, outcomes>>

HNoWrite ==
    /\ pc = "h_write"
    /\ i < MaxIter
    /\ events' = << <<"nowrite", i>> >>
    /\ pc' = "h_capture"
    /\ UNCHANGED <<ends, t, end, i, mem, snapshot, corrupted, prev, row,
                   safe_result, after, frame0, outcomes>>

HCapture ==
    /\ pc = "h_capture"
    /\ snapshot' = Capture(mem)
    /\ pc' = "h_diff"
    /\ UNCHANGED <<ends, t, end, i, mem, corrupted, prev, row,
                   safe_result, after, frame0, events, outcomes>>

HPrintDiff ==
    /\ pc = "h_diff"
    /\ row' = print_diff_line(corrupted, snapshot, prev, <<"i=", i>>)
    /\ corrupted' = print_diff_mark(corrupted, snapshot, prev)
    /\ pc' = "h_save"
    /\ UNCHANGED <<ends, t, end, i, mem, snapshot, prev,
                   safe_result, after, frame0, events, outcomes>>

HSavePrev ==
    /\ pc = "h_save"
    /\ prev' = snapshot
    /\ i' = i + 1
    /\ pc' = "h_write"
    /\ UNCHANGED <<ends, t, end, mem, snapshot, corrupted, row,
                   safe_result, after, frame0, events, outcomes>>

HConsume ==
    /\ pc = "h_write"
    /\ after' = <<read_len_volatile(mem), read_num_volatile(mem), read_guard_volatile(mem)>>
    /\ safe_result' = safe_sum_prefix(mem)
    /\ pc' = "h_done"
    /\ UNCHANGED <<ends, t, end, i, mem, snapshot, corrupted, prev, row,
                   frame0, events, outcomes>>

NextOps ==
    \/ HWrite
    \/ HNoWrite
    \/ HCapture
    \/ HPrintDiff
    \/ HSavePrev
    \/ HConsume

SpecOps == InitOps /\ [][NextOps]_vars

\* main, the single trials and the arbitrary writes together
SpecAll == (Init \/ InitTrial \/ InitOps) /\ [][Next \/ NextOps]_vars

(***************************************************************************)
(* Properties.                                                             *)
(***************************************************************************)
InTrial == pc \in {"write", "capture", "diff", "saveprev", "endtrial"}

LenRange == LEN_OFF..(LEN_OFF + LEN_SZ - 1)

\* the frame after the writes at offsets 0..n-1 of a trial that started from f
Image(f, n) ==
    [j \in Positions |->
        IF j >= BUF_OFF /\ j < BUF_OFF + n THEN (j - BUF_OFF) % 256 ELSE f[j]]

\* C1 as stated: at the end of a trial with end <= BUFFER_SIZE no corruption
\* flag of the view is set.
C1_NoFlagAtAll ==
    (pc = "endtrial" /\ end <= BUFFER_SIZE) =>
        \A j \in Positions : ~corrupted[j]

\* C1 amended: at the end of a trial with end <= BUFFER_SIZE the flags set are
\* exactly those of the buffer bytes whose value a write changed, offsets
\* 1..end-1 of the buffer; no flag outside the buffer is set, so none in a
\* watched range.
C1_FlagsOnlyInBuffer ==
    (pc = "endtrial" /\ end <= BUFFER_SIZE) =>
        /\ \A j \in Positions :
              corrupted[j] <=> (j >= BUF_OFF + 1 /\ j < BUF_OFF + end)
        /\ \A j \in Positions : is_watched(j) => ~corrupted[j]

C1_Witness ==
    /\ pc = "endtrial"
    /\ end = BUFFER_SIZE
    /\ corrupted[BUF_OFF + BUFFER_SIZE - 1]
    /\ ~corrupted[LEN_OFF]

\* C2 as stated: at the end of a trial with end > BUFFER_SIZE the flag of every
\* byte offset in [BUFFER_SIZE, end) is set.
C2_AllFlagsPastBuffer ==
    (pc = "endtrial" /\ end > BUFFER_SIZE) =>
        \A k \in BUFFER_SIZE..(end - 1) : corrupted[BUF_OFF + k]

\* C2 amended: at the end of a trial with end > BUFFER_SIZE, for every offset k
\* in [BUFFER_SIZE, end) the flag is set exactly when the byte held a value
\* other than k before the trial; that is the case for every byte of a field
\* (len, num, guard), so those flags are all set, and a padding byte that
\* already held k keeps its flag clear.
C2_FlagsPastBuffer ==
    (pc = "endtrial" /\ end > BUFFER_SIZE) =>
        \A k \in BUFFER_SIZE..(end - 1) :
            /\ corrupted[BUF_OFF + k] <=> (frame0[BUF_OFF + k] # k % 256)
            /\ is_watched(BUF_OFF + k) => corrupted[BUF_OFF + k]

C2_Witness ==
    /\ pc = "endtrial"
    /\ end > LEN_OFF + 1
    /\ corrupted[LEN_OFF]
    /\ \E j \in PADDING : j < end /\ ~corrupted[j]

C4_FullBufferSum ==
    (pc = "endtrial" /\ end = BUFFER_SIZE) =>
        /\ \A k \in 0..(BUFFER_SIZE - 1) : mem[BUF_OFF + k] = k
        /\ safe_result = <<"Ok", (BUFFER_SIZE * (BUFFER_SIZE - 1)) \div 2>>

C4_Witness ==
    /\ pc = "endtrial"
    /\ end = BUFFER_SIZE
    /\ Len(safe_result) = 2
    /\ safe_result[2] = 10

\* C5: within a trial a corruption flag that is set stays set, whatever the
\* step: no write, capture or diff clears it (the flags go with the view at
\* the end of the trial).
C5_FlagsMonotonic ==
    [][pc # "endtrial" => \A j \in Positions : corrupted[j] => corrupted'[j]]_vars

\* a flag set in the first round, its byte unchanged in the second diff
C5_Witness ==
    /\ pc = "h_save"
    /\ i = 1
    /\ \E j \in Positions : corrupted[j] /\ prev[j] = snapshot[j]

\* a diff line has just been printed from snapshot and prev
DiffPrinted == pc \in {"saveprev", "h_save"}

\* C6: in every diff line a byte whose value differs from prev is printed with
\* the red (changed) formatter, also inside a watched range and whatever its
\* corruption flag was.
C6_ChangedIsRed ==
    DiffPrinted =>
        \A j \in Positions : prev[j] # snapshot[j] => row.cells[j].fmt = "red"

\* a watched byte changed in the first round (flag set) changes again in the second
C6_Witness ==
    /\ pc = "h_save"
    /\ i = 1
    /\ \E j \in Positions :
          /\ is_watched(j)
          /\ frame0[j] # prev[j]
          /\ prev[j] # snapshot[j]
          /\ row.cells[j].fmt = "red"

LastEvent == events[Len(events)]

\* C7: a capture taken as prev, then a second capture with no write in
\* between, then the diff: the diff sets no flag and prints no byte as changed.
C7_CaptureDiffIdempotent ==
    [][(pc = "h_diff" /\ LastEvent[1] = "nowrite") =>
          /\ corrupted' = corrupted
          /\ \A j \in Positions : row'.cells[j].fmt # "red"]_vars

\* the diff of a round without a write, with a flag already set
C7_Witness ==
    /\ pc = "h_save"
    /\ i = 1
    /\ LastEvent[1] = "nowrite"
    /\ \E j \in Positions : corrupted[j]
    /\ row.label = <<"i=", 1>>

\* C8: in a trial writes and diff lines alternate, write 0, diff 0, write 1,
\* diff 1, ...; the snapshot diffed after the write at offset k is the initial
\* image with the bytes at offsets 0..k replaced by the offset, and prev is the
\* image after the writes 0..k-1.
C8_WriteDiffAlternate ==
    /\ InTrial =>
          \A n \in 1..Len(events) :
              events[n] = IF n % 2 = 1 THEN <<"write", (n - 1) \div 2>>
                                       ELSE <<"diff", (n \div 2) - 1>>
    /\ pc = "saveprev" =>
          /\ Len(events) = 2 * (i + 1)
          /\ row.label = <<"i=", i>>
          /\ snapshot = Image(frame0, i + 1)
          /\ prev = Image(frame0, i)
    /\ pc = "endtrial" => Len(events) = 2 * end

C8_Witness ==
    /\ pc = "saveprev"
    /\ i = LEN_OFF + 1
    /\ snapshot[LEN_OFF + 1] = LEN_OFF + 1
    /\ prev[LEN_OFF + 1] = 0
    /\ prev[LEN_OFF] = LEN_OFF

\* the sum of the first n <= BUFFER_SIZE bytes of the buffer, written out
PrefixSum(m, n) ==
    (IF n > 0 THEN m[BUF_OFF] ELSE 0) + (IF n > 1 THEN m[BUF_OFF + 1] ELSE 0)
    + (IF n > 2 THEN m[BUF_OFF + 2] ELSE 0) + (IF n > 3 THEN m[BUF_OFF + 3] ELSE 0)
    + (IF n > 4 THEN m[BUF_OFF + 4] ELSE 0)

\* the consumer has just been called on mem
Consumed == pc \in {"endtrial", "h_done"}

\* C9: safe_sum_prefix fails exactly when the len read from the frame is
\* greater than BUFFER_SIZE; otherwise it returns Ok with the sum of the first
\* len bytes of the buffer; the failure is no Ok value.
C9_ConsumerOutcome ==
    Consumed =>
        /\ safe_result = <<"Err">> <=> after[1] > BUFFER_SIZE
        /\ after[1] <= BUFFER_SIZE =>
              safe_result = <<"Ok", PrefixSum(mem, after[1])>>
        /\ safe_result[1] \in {"Ok", "Err"}
        /\ after[1] = mem[LEN_OFF] + 256 * mem[LEN_OFF + 1]
                      + 65536 * mem[LEN_OFF + 2] + 16777216 * mem[LEN_OFF + 3]

\* a len below BUFFER_SIZE with a non-zero prefix
C9_Witness ==
    /\ pc = "h_done"
    /\ after[1] = 1
    /\ safe_result = <<"Ok", 1>>

\* what main has recorded when it returns: one entry per end length, in
\* order, each with end writes and end diffs, the failures among them
OutcomesOfMain ==
    /\ Len(outcomes) = Len(ENDS)
    /\ \A n \in 1..Len(ENDS) :
          /\ outcomes[n].end = ENDS[n]
          /\ Len(outcomes[n].events) = 2 * ENDS[n]
          /\ Len(outcomes[n].result) \in {1, 2}
    /\ \E n \in 1..(Len(ENDS) - 1) : outcomes[n].result = <<"Err">>

\* C10: a failing consumer does not stop the run: main runs the trials for
\* 5, 6, 8, 10, 12 in that order, each with end write/capture/diff steps and
\* its consumer check, also after a trial whose consumer failed, and reaches
\* the summary.
C10_RunCompletes ==
    /\ <>(pc = "done")
    /\ [](pc = "done" => OutcomesOfMain)
    /\ [](pc \in {"loop", "write", "capture", "diff", "saveprev", "endtrial", "done"})

C10_Witness ==
    /\ pc = "done"
    /\ Len(outcomes) = 5
    /\ outcomes[4].result = <<"Err">>
    /\ outcomes[5].end = 12

\* a trial has just started: the frame and the view are new, nothing written
TrialStarted == pc = "write" /\ i = 0 /\ events = <<>>

\* C11: at the start of every trial, whatever the earlier trials did, the
\* frame has len = BUFFER_SIZE, num = 40000, guard = 0xDEADBEEF and an
\* all-zero buffer, and no corruption flag of the view is set.
C11_TrialsIsolated ==
    TrialStarted =>
        /\ read_len_volatile(mem) = 5
        /\ read_num_volatile(mem) = 40000
        /\ read_guard_volatile(mem) = <<222, 173, 190, 239>>
        /\ \A k \in 0..(BUFFER_SIZE - 1) : mem[BUF_OFF + k] = 0
        /\ \A j \in Positions : ~corrupted[j]
        /\ snapshot = mem /\ prev = mem

\* the last trial starts after two trials whose consumer failed
C11_Witness ==
    /\ TrialStarted
    /\ t = 5
    /\ Len(outcomes) = 4
    /\ outcomes[4].result = <<"Err">>
    /\ outcomes[4].end = 10

\* a write at offset i has just been made
Written == pc = "capture"

FieldOf(j) == CHOOSE k \in 1..Len(WATCHED) : j >= WATCHED[k][1] /\ j < WATCHED[k][2]

C13_FieldsUntouched ==
    (InTrial /\ end <= BUFFER_SIZE) =>
        /\ Written => i < BUFFER_SIZE
        /\ \A j \in Positions :
              (j < BUF_OFF \/ j >= BUF_OFF + BUFFER_SIZE) => mem[j] = frame0[j]
        /\ read_len_volatile(mem) = 5
        /\ read_num_volatile(mem) = 40000
        /\ read_guard_volatile(mem) = <<222, 173, 190, 239>>
        /\ pc = "endtrial" => after = <<5, 40000, <<222, 173, 190, 239>>>>

C13_Witness ==
    /\ pc = "endtrial"
    /\ end = BUFFER_SIZE
    /\ mem[BUF_OFF + BUFFER_SIZE - 1] = BUFFER_SIZE - 1
    /\ after[2] = 40000

\* the "init" line has been printed and is the last hex-dump line
InitPrinted == row.label = <<"init">>

\* C14 as stated: print_row prints every byte of the "init" line with the
\* plain formatter, the bytes in watched ranges included.
C14_InitRowAllPlain ==
    InitPrinted => \A j \in Positions : row.cells[j].fmt = "plain"

\* C14 amended: print_row never uses the changed formatter, but it does apply
\* the watched-vs-plain distinction: in the "init" line, where no flag is set,
\* every byte of a watched range (len, num, guard) is printed with the
\* watched-pristine (green) formatter and every other byte plain, each with
\* the value of the new frame.
C14_InitRowWatchedGreen ==
    InitPrinted =>
        \A j \in Positions :
            /\ row.cells[j].fmt = IF j >= LEN_OFF THEN "green" ELSE "plain"
            /\ row.cells[j].byte = frame0[j]

C14_Witness ==
    /\ InitPrinted
    /\ TrialStarted
    /\ row.cells[LEN_OFF].fmt = "green"
    /\ row.cells[GUARD_OFF + GUARD_SZ - 1].fmt = "green"
    /\ row.cells[BUF_OFF].fmt = "plain"

\* C15: a watched byte that changes in a step is printed changed in that
\* step's diff and gets its flag; in every later diff of the trial it is
\* printed plain when unchanged or changed when it changes again, never
\* watched-pristine; a watched byte is printed watched-pristine exactly when
\* it is unchanged in the step and its flag is not set (for an unchanged byte
\* the flag after the diff is the flag before it).
C15_PristineUntilChanged ==
    pc = "saveprev" =>
        \A j \in Positions :
            /\ row.cells[j].fmt = "green" <=>
                  (is_watched(j) /\ prev[j] = snapshot[j] /\ ~corrupted[j])
            /\ row.cells[j].fmt = "red" <=> prev[j] # snapshot[j]
            /\ row.cells[j].fmt = "red" => corrupted[j]
            /\ row.cells[j].fmt \in {"red", "green", "plain"}
            \* a byte written in an earlier step whose value that write changed
            /\ (j - BUF_OFF < i /\ j >= BUF_OFF /\ frame0[j] # prev[j]) =>
                  /\ corrupted[j]
                  /\ row.cells[j].fmt = "plain"

\* the low byte of len changed one step ago, the next byte changes now, the
\* third is still pristine
C15_Witness ==
    /\ pc = "saveprev"
    /\ i = LEN_OFF + 1
    /\ row.cells[LEN_OFF].fmt = "plain"
    /\ row.cells[LEN_OFF + 1].fmt = "red"
    /\ row.cells[LEN_OFF + 2].fmt = "green"

\* a hex-dump line has been printed
RowPrinted == row.label # <<>>

\* C16 as stated: a divider is printed before byte j exactly when j is the
\* start offset of len, num or guard.
C16_DividerAtFieldStarts ==
    RowPrinted =>
        \A j \in Positions : row.cells[j].sep <=> j \in {LEN_OFF, NUM_OFF, GUARD_OFF}

\* C16 amended: a divider is printed before byte j exactly when j is the
\* offset right after the buffer (5) or the start offset of len, num or guard
\* (8, 12, 16): SEPS holds the end of the buffer besides the field starts, and
\* with the padding before len the two differ.
C16_DividerAtSeps ==
    RowPrinted =>
        \A j \in Positions : row.cells[j].sep <=> j \in {5, 8, 12, 16}

C16_Witness ==
    /\ row.label = <<"i=", 5>>
    /\ row.cells[5].sep
    /\ row.cells[8].sep
    /\ ~row.cells[6].sep

\* the write at the first byte of len has been made in this trial
LenWritten == \E n \in 1..Len(events) : events[n] = <<"write", LEN_OFF - BUF_OFF>>

\* C17: in a trial len <= BUFFER_SIZE holds in every state before the write
\* at the first byte of len (offset LEN_OFF - BUF_OFF = 8), fails in the state
\* right after that write and in every later state of the trial; the consumer
\* fails exactly in the trials with end > LEN_OFF - BUF_OFF.
C17_InvariantBrokenAtLenOff ==
    InTrial =>
        /\ read_len_volatile(mem) <= BUFFER_SIZE <=> ~LenWritten
        /\ ~LenWritten => read_len_volatile(mem) = 5
        /\ LenWritten <=> (i > 8 \/ (i = 8 /\ pc \in {"capture", "diff", "saveprev"}))
        /\ pc = "endtrial" => (safe_result = <<"Err">> <=> end > 8)

\* len was broken by the write at offset 8 and three more writes went into it
C17_Witness ==
    /\ pc = "endtrial"
    /\ end = 12
    /\ LenWritten
    /\ after[1] > BUFFER_SIZE
    /\ safe_result = <<"Err">>

NumGuardRange == NUM_OFF..(GUARD_OFF + GUARD_SZ - 1)

C19_OnlyWrittenByteChanges ==
    /\ pc = "saveprev" =>
          /\ \A j \in Positions : row.cells[j].fmt = "red" => j = BUF_OFF + i
          /\ row.cells[BUF_OFF + i].fmt = "red" <=> frame0[BUF_OFF + i] # i % 256
          /\ corrupted[BUF_OFF + i] <=> frame0[BUF_OFF + i] # i % 256
          /\ \A j \in Positions : j > BUF_OFF + i => ~corrupted[j]
          /\ row.cells[BUF_OFF].fmt = "plain"
    /\ InTrial => ~corrupted[BUF_OFF]

\* a padding byte that already held the value written: no byte printed changed
C19_Witness ==
    /\ pc = "saveprev"
    /\ i = BUFFER_SIZE
    /\ frame0[BUF_OFF + BUFFER_SIZE] = BUFFER_SIZE
    /\ \A j \in Positions : row.cells[j].fmt # "red"
    /\ ~corrupted[BUF_OFF]
    /\ corrupted[BUF_OFF + 1]

====
